---- MODULE Spec2Model ----
(***************************************************************************)
(* A model of go-tax: the word/sentence Dispenser (package dispenser), the *)
(* statement extractor and the operator-stream interpreter (package pdf)   *)
(* and the currency type (package statement).                              *)
(*                                                                         *)
(* Go strings are TLA+ strings; a character is a string of length one, got *)
(* with SubSeq.  A Go index i (0-based) reads str[i+1].  A Go run-time     *)
(* panic (index out of range) is an explicit outcome of every operator.    *)
(*                                                                         *)
(* A local value is named as in  Only({ body : x \in {e} }), which is body *)
(* with x standing for the value of e, computed once.                      *)
(***************************************************************************)
EXTENDS Integers, Sequences, FiniteSets, TLC

VARIABLES
    str,        \* Dispenser.str: the fragment list ([]string)
    d,          \* Dispenser.i and Dispenser.continueNextSentence: [i, c]
    op,         \* the operation that made the last step, and its argument
    pre,        \* the Dispenser's [i, c] when that operation was called
    ret,        \* what that operation returned: [ok, text, list, panic]
    holders,    \* processText's holders argument
    state,      \* processText's state (statement.Statement)
    tracker,    \* processText's numeralHeadTracker
    pc,         \* where processText / Process stands
    hist,       \* the main loop's DumpSentence calls: start index and text
    log,        \* per header: how often it was appended and assigned
    stack,      \* textTracker.stack
    font,       \* textTracker.font
    result      \* what Process or processText returned: [returned, s, err]

vars == <<str, d, op, pre, ret, holders, state, tracker, pc, hist, log,
          stack, font, result>>

----------------------------------------------------------------------------
(* Bounds of the model.                                                    *)

\* fragments of a list handed to the Dispenser
MaxWords == 4

\* fragments of a document handed to processText
MaxFrags == 4

\* turns of processText's loop that are followed
MaxIter == 6

\* fragments of the text textTracker.process collects
MaxText == 3

\* single spaces written onto one fragment
MaxPad == 1

\* operands on textTracker.stack
MaxStack == 3

----------------------------------------------------------------------------
(* Strings.                                                                *)

Only(S) == CHOOSE x \in S : TRUE

Char(s, k) == SubSeq(s, k, k)

LastChar(s) == Char(s, Len(s))

Digits == {"0", "1", "2", "3", "4", "5", "6", "7", "8", "9"}

DigitVal == [c \in Digits |-> CHOOSE k \in 0..9 : Char("0123456789", k + 1) = c]

UpperChars == "ABCDEFGHIJKLMNOPQRSTUVWXYZ"

LowerChars == "abcdefghijklmnopqrstuvwxyz"

LowerOf ==
    [c \in {Char(UpperChars, k) : k \in 1..26} |->
        Char(LowerChars, CHOOSE k \in 1..26 : Char(UpperChars, k) = c)]

UpperOf ==
    [c \in {Char(LowerChars, k) : k \in 1..26} |->
        Char(UpperChars, CHOOSE k \in 1..26 : Char(LowerChars, k) = c)]

LowerChar(c) == IF c \in DOMAIN LowerOf THEN LowerOf[c] ELSE c

UpperChar(c) == IF c \in DOMAIN UpperOf THEN UpperOf[c] ELSE c

RECURSIVE LowerFrom(_, _)
LowerFrom(s, k) ==
    IF k > Len(s) THEN "" ELSE LowerChar(Char(s, k)) \o LowerFrom(s, k + 1)

\* strings.ToLower
ToLower(s) == LowerFrom(s, 1)

RECURSIVE UpperFrom(_, _)
UpperFrom(s, k) ==
    IF k > Len(s) THEN "" ELSE UpperChar(Char(s, k)) \o UpperFrom(s, k + 1)

\* strings.ToUpper
ToUpper(s) == UpperFrom(s, 1)

\* len(s) >= len(p) && s[:len(p)] == p
HasPrefix(s, p) == Len(s) >= Len(p) /\ SubSeq(s, 1, Len(p)) = p

\* strings.Contains
Contains(s, sub) ==
    \E k \in 1..(Len(s) - Len(sub) + 1) : SubSeq(s, k, k + Len(sub) - 1) = sub

\* strings.Replace(s, ",", "", -1)
RECURSIVE CommasFrom(_, _)
CommasFrom(s, k) ==
    IF k > Len(s) THEN ""
    ELSE (IF Char(s, k) = "," THEN "" ELSE Char(s, k)) \o CommasFrom(s, k + 1)

RemoveCommas(s) == CommasFrom(s, 1)

\* the first position of s that does not hold c, Len(s) + 1 if there is none
FirstNot(s, c) ==
    Only({IF rest = {} THEN Len(s) + 1 ELSE CHOOSE k \in rest : \A o \in rest : k <= o :
             rest \in {{k \in 1..Len(s) : Char(s, k) # c}}})

\* the last position of s that does not hold c, 0 if there is none
LastNot(s, c) ==
    Only({IF rest = {} THEN 0 ELSE CHOOSE k \in rest : \A o \in rest : k >= o :
             rest \in {{k \in 1..Len(s) : Char(s, k) # c}}})

\* strings.TrimLeft(s, c)
TrimLeftChar(s, c) == SubSeq(s, FirstNot(s, c), Len(s))

\* strings.TrimSpace, over an alphabet whose only white space is " "
TrimSpace(s) ==
    IF LastNot(s, " ") = 0 THEN "" ELSE SubSeq(s, FirstNot(s, " "), LastNot(s, " "))

\* strings.Split(s, " "): the pieces between single spaces, empty ones kept
RECURSIVE SplitFrom(_, _, _)
SplitFrom(s, k, from) ==
    IF k > Len(s) THEN <<SubSeq(s, from, Len(s))>>
    ELSE IF Char(s, k) = " " THEN <<SubSeq(s, from, k - 1)>> \o SplitFrom(s, k + 1, k + 1)
    ELSE SplitFrom(s, k + 1, from)

Split(s) == SplitFrom(s, 1, 1)

\* strings.Join(list, " ")
RECURSIVE JoinFrom(_, _)
JoinFrom(list, k) ==
    IF k > Len(list) THEN ""
    ELSE IF k = Len(list) THEN list[k]
    ELSE list[k] \o " " \o JoinFrom(list, k + 1)

Join(list) == JoinFrom(list, 1)

\* the fragments from position a to position b, one after the other
RECURSIVE Concat(_, _, _)
Concat(list, a, b) == IF a > b THEN "" ELSE list[a] \o Concat(list, a + 1, b)

----------------------------------------------------------------------------
(* Numerals.  A float64 value is kept as an exact count of thousandths;    *)
(* the fragments of the model carry at most three decimal digits.          *)

Milli == 1000

RECURSIVE DigitsFrom(_, _, _)
DigitsFrom(s, k, acc) ==
    IF k > Len(s) THEN acc ELSE DigitsFrom(s, k + 1, 10 * acc + DigitVal[Char(s, k)])

\* the number a string of digits writes
DigitsValue(s) == DigitsFrom(s, 1, 0)

AllDigits(s) == \A k \in 1..Len(s) : Char(s, k) \in Digits

\* the first three decimal digits of a fraction, as thousandths
FracMilli(f) == DigitsValue(SubSeq(f \o "000", 1, 3))

\* strconv.ParseFloat on the decimal forms [+-]digits[.digits]: value, error
ParseDecimal(body, neg) ==
    Only({IF /\ Cardinality(dots) <= 1
             /\ Len(body) > Cardinality(dots)
             /\ \A k \in 1..Len(body) : k \in dots \/ Char(body, k) \in Digits
          THEN Only({[ok |-> TRUE,
                      num |-> (IF neg THEN -1 ELSE 1) *
                              (DigitsValue(SubSeq(body, 1, dot - 1)) * Milli
                               + FracMilli(SubSeq(body, dot + 1, Len(body))))] :
                        dot \in {IF dots = {} THEN Len(body) + 1 ELSE Only(dots)}})
          ELSE [ok |-> FALSE, num |-> 0] :
             dots \in {{k \in 1..Len(body) : Char(body, k) = "."}}})

ParseFloat(s) ==
    IF s # "" /\ Char(s, 1) \in {"-", "+"}
    THEN Only({ParseDecimal(body, Char(s, 1) = "-") : body \in {SubSeq(s, 2, Len(s))}})
    ELSE ParseDecimal(s, FALSE)

\* getNumeral(str): the value in thousandths, and whether str is a numeral
getNumeral(s) ==
    Only({ParseFloat(clean) :
             clean \in {TrimLeftChar(t, "$") :
                 t \in {TrimSpace(x) : x \in {RemoveCommas(s)}}}})

IsNumeral(s) == getNumeral(s).ok

----------------------------------------------------------------------------
(* The Dispenser.  Every operation is an operator from the fragment list   *)
(* and the cursor [i, c] to an outcome [i, c, ok, text, list, panic]: the  *)
(* cursor after the call (at the panic, when it panics) and the returned   *)
(* bool, string or list.                                                   *)

Out(i, c, ok) ==
    [i |-> i, c |-> c, ok |-> ok, text |-> "", list |-> <<>>, panic |-> FALSE]

Panic(i, c) ==
    [i |-> i, c |-> c, ok |-> FALSE, text |-> "", list |-> <<>>, panic |-> TRUE]

Cur(o) == [i |-> o.i, c |-> o.c]

\* d.str[i] is a legal index expression
InRange(s, i) == 0 <= i /\ i < Len(s)

\* d.str[i][len(d.str[i])-1] is a legal index expression
CanLast(s, i) == InRange(s, i) /\ s[i + 1] # ""

\* d.str[i][len(d.str[i])-1] != ' '
NoTrail(s, i) == LastChar(s[i + 1]) # " "

NewDispenser == [i |-> 0, c |-> FALSE]

NextWord(s, c) ==
    IF c.i >= Len(s) THEN Out(c.i, c.c, FALSE)
    ELSE IF ~c.c THEN Out(c.i, c.c, FALSE)
    ELSE IF ~InRange(s, c.i) THEN Panic(c.i, c.c)
    ELSE IF IsNumeral(s[c.i + 1]) THEN Out(c.i, c.c, FALSE)
    ELSE IF ~CanLast(s, c.i) THEN Panic(c.i, c.c)
    ELSE Out(c.i + 1, IF NoTrail(s, c.i) \/ c.i + 1 = Len(s) THEN FALSE ELSE c.c, TRUE)

NextNumeral(s, c) ==
    IF c.i >= Len(s) THEN Out(c.i, c.c, FALSE)
    ELSE IF ~c.c THEN Out(c.i, c.c, FALSE)
    ELSE IF ~InRange(s, c.i) THEN Panic(c.i, c.c)
    ELSE IF IsNumeral(s[c.i + 1])
         THEN Out(c.i + 1, IF NoTrail(s, c.i) THEN FALSE ELSE c.c, TRUE)
    ELSE Out(c.i, c.c, FALSE)

AtEndOfSentence(s, c) == ~c.c \/ c.i >= Len(s)

\* the forward loop of NextSentence and of DumpSentence: where it leaves i
RECURSIVE ScanEnd(_, _)
ScanEnd(s, i) ==
    IF i >= Len(s) THEN [i |-> i, panic |-> FALSE]
    ELSE IF ~CanLast(s, i) THEN [i |-> i, panic |-> TRUE]
    ELSE IF NoTrail(s, i) THEN [i |-> i + 1, panic |-> FALSE]
    ELSE ScanEnd(s, i + 1)

NextSentence(s, c) ==
    IF c.i >= Len(s) THEN Out(c.i, c.c, FALSE)
    ELSE IF ~c.c THEN Out(c.i, TRUE, TRUE)
    ELSE Only({IF e.panic THEN Panic(e.i, c.c)
               ELSE IF e.i + 1 = Len(s) THEN Out(e.i + 1, c.c, FALSE)
               ELSE IF e.i >= Len(s) THEN Out(e.i, c.c, FALSE)
               ELSE Out(e.i, c.c, TRUE) : e \in {ScanEnd(s, c.i)}})

\* DumpSentence: sentence is the fragments the loop went over
DumpSentence(s, c) ==
    IF ~c.c THEN Out(c.i, c.c, TRUE)
    ELSE Only({IF e.panic THEN Panic(e.i, c.c)
               ELSE [Out(e.i, FALSE, TRUE) EXCEPT !.text = Concat(s, c.i + 1, e.i)] :
                  e \in {ScanEnd(s, c.i)}})

\* the backward loop that ends StartOfSentence
RECURSIVE ScanStart(_, _)
ScanStart(s, i) ==
    IF i <= 0 THEN [i |-> i, panic |-> FALSE]
    ELSE IF ~CanLast(s, i) THEN [i |-> i, panic |-> TRUE]
    ELSE IF NoTrail(s, i) THEN [i |-> i + 1, panic |-> FALSE]
    ELSE ScanStart(s, i - 1)

StartOfSentence(s, c) ==
    IF c.i > 0 /\ c.i < Len(s) /\ ~CanLast(s, c.i) THEN Panic(c.i, c.c)
    ELSE IF c.i > 0 /\ c.i < Len(s) /\ NoTrail(s, c.i) /\ ~CanLast(s, c.i - 1)
         THEN Panic(c.i, c.c)
    ELSE IF c.i > 0 /\ c.i < Len(s) /\ NoTrail(s, c.i) /\ NoTrail(s, c.i - 1)
         THEN (IF ~c.c THEN Out(c.i - 1, TRUE, TRUE) ELSE Out(c.i, c.c, TRUE))
    ELSE IF c.i = 0 THEN Out(c.i, TRUE, TRUE)
    ELSE IF Len(s) = 1 THEN Out(0, c.c, TRUE)
    ELSE Only({IF b.panic THEN Panic(b.i, TRUE) ELSE Out(b.i, TRUE, TRUE) :
                  b \in {ScanStart(s, k) :
                      k \in {IF j < 0 THEN 0 ELSE j :
                          j \in {IF c.i = Len(s) \/ ~c.c THEN c.i - 2 ELSE c.i}}}})

LastSentence(s, c) ==
    Only({IF a.panic THEN a
          ELSE IF ~CanLast(s, a.i) THEN Panic(a.i, a.c)
          ELSE IF NoTrail(s, a.i) THEN Out(a.i - 1, a.c, TRUE)
          ELSE IF a.i - 2 <= 0 THEN Out(1, a.c, TRUE)
          ELSE StartOfSentence(s, [i |-> a.i - 2, c |-> a.c]) :
             a \in {StartOfSentence(s, c)}})

\* the loop of DumpNSentences: up to k sentences more, after the list acc
RECURSIVE DumpMore(_, _, _, _)
DumpMore(s, c, k, acc) ==
    IF k <= 0 THEN [i |-> c.i, c |-> c.c, list |-> acc, panic |-> FALSE]
    ELSE Only({
        IF n.panic THEN [i |-> n.i, c |-> n.c, list |-> acc, panic |-> TRUE]
        ELSE IF ~n.ok THEN [i |-> n.i, c |-> n.c, list |-> acc, panic |-> FALSE]
        ELSE Only({
            IF t.panic THEN [i |-> t.i, c |-> t.c, list |-> acc, panic |-> TRUE]
            ELSE Only({DumpMore(s, Cur(t), k - 1, more) : more \in {Append(acc, t.text)}}) :
                t \in {DumpSentence(s, Cur(n))}}) :
            n \in {NextSentence(s, c)}})

\* DumpNSentences: the cursor is put back only when the calls return
DumpNSentences(s, c, n) ==
    Only({IF first.panic THEN first
          ELSE Only({IF m.panic THEN Panic(m.i, m.c)
                     ELSE [Out(c.i, c.c, TRUE) EXCEPT !.list = m.list] :
                        m \in {DumpMore(s, Cur(first), n - 1, <<first.text>>)}}) :
             first \in {DumpSentence(s, c)}})

\* the loop of JumpNextNumeral, ended by the end of the sentence or by break
RECURSIVE JumpLoop(_, _)
JumpLoop(s, c) ==
    IF AtEndOfSentence(s, c) THEN Out(c.i, c.c, TRUE)
    ELSE Only({
        IF n.panic THEN n
        ELSE IF n.ok THEN Out(n.i - 1, TRUE, TRUE)
        ELSE Only({IF w.panic THEN w ELSE JumpLoop(s, Cur(w)) : w \in {NextWord(s, c)}}) :
            n \in {NextNumeral(s, c)}})

\* JumpNextNumeral that leaves the cursor where its search ended
JumpNextNumeralStays(s, c) ==
    Only({IF l.panic THEN l
          ELSE Only({IF hasNext.panic THEN hasNext
                     ELSE IF ~hasNext.ok /\ AtEndOfSentence(s, Cur(hasNext))
                          THEN Out(hasNext.i, hasNext.c, FALSE)
                     ELSE Out(hasNext.i, TRUE, TRUE) :
                        hasNext \in {NextNumeral(s, Cur(l))}}) :
             l \in {JumpLoop(s, c)}})

JumpNextNumeral(s, c) ==
    Only({IF l.panic THEN l
          ELSE Only({IF hasNext.panic THEN hasNext
                     ELSE IF ~hasNext.ok /\ AtEndOfSentence(s, Cur(hasNext))
                          THEN Out(c.i, hasNext.c, FALSE)
                     ELSE Out(hasNext.i, TRUE, TRUE) :
                        hasNext \in {NextNumeral(s, Cur(l))}}) :
             l \in {JumpLoop(s, c)}})

Position(c) == c.i

\* Numeral: the value of str[i-1], or 0
Numeral(s, c) ==
    IF c.i > Len(s) \/ c.i = 0 THEN 0
    ELSE Only({IF g.ok THEN g.num ELSE 0 : g \in {getNumeral(s[c.i])}})

\* Word: str[i-1] trimmed
Word(s, c) == IF c.i > Len(s) \/ c.i = 0 THEN "" ELSE TrimSpace(s[c.i])

----------------------------------------------------------------------------
(* package statement.                                                      *)

\* Go's conversion of a quotient to an integer: towards zero
TruncDiv(a, b) == IF a >= 0 THEN a \div b ELSE 0 - ((0 - a) \div b)

\* NewDollar(number) = Dollar{int64(number*100 + 0.5), true}, number in thousandths
NewDollar(number) ==
    [Cents |-> TruncDiv(number * 100 + Milli \div 2, Milli), HasValue |-> TRUE]

\* int(number), number in thousandths
ToInt(number) == TruncDiv(number, Milli)

ZeroDollar == [Cents |-> 0, HasValue |-> FALSE]

NoDate == [set |-> FALSE, day |-> 0, month |-> 0, year |-> 0]

\* the zero value of statement.Statement
ZeroStatement ==
    [Entity |-> "", ASXCode |-> "", AccountHolders |-> <<>>, PaymentDate |-> NoDate,
     TotalPayment |-> ZeroDollar, FrankingCredit |-> ZeroDollar,
     UnfrankedAmount |-> ZeroDollar, FrankedAmount |-> ZeroDollar,
     WithholdingTax |-> ZeroDollar, SharesAllotted |-> 0,
     CostOfSharesAllotted |-> ZeroDollar, TotalShares |-> 0]

----------------------------------------------------------------------------
(* package pdf: the statement extractor.                                   *)

Headers == {"Franked", "Unfranked", "FrankingCredit", "WithholdingTax",
            "SharesAllotted", "CostOfSharesAllotted", "TotalShares",
            "TotalPayment", "Other"}

\* the headers a result field belongs to
FieldHeaders == Headers \ {"Other"}

numeralHeaders ==
    [h \in Headers |->
        CASE h = "Franked" -> {"franked amount"}
          [] h = "Unfranked" -> {"unfranked"}
          [] h = "WithholdingTax" -> {"withholding tax", "less withholding tax"}
          [] h = "SharesAllotted" -> {"number of shares allotted"}
          [] h = "CostOfSharesAllotted" -> {"cost of shares allotted"}
          [] h = "TotalShares" -> {"total shares"}
          [] h = "TotalPayment" -> {"total payment", "total amount"}
          [] h = "FrankingCredit" -> {"franking credit"}
          [] h = "Other" -> {"dividend rate", "participating shares",
                             "participating holding", "net amount",
                             "dividend reinvestment plan amount",
                             "cash balance brought forward",
                             "amount available from this payment",
                             "total amount available for reinvestment",
                             "cash balance carried forward"}]

\* the switch of numeralHeader: the field of the header already has a value
Populated(h, st) ==
    CASE h = "Franked" -> st.FrankedAmount.HasValue
      [] h = "Unfranked" -> st.UnfrankedAmount.HasValue
      [] h = "WithholdingTax" -> st.WithholdingTax.HasValue
      [] h = "SharesAllotted" -> st.SharesAllotted # 0
      [] h = "CostOfSharesAllotted" -> st.CostOfSharesAllotted.HasValue
      [] h = "TotalShares" -> st.TotalShares # 0
      [] h = "TotalPayment" -> st.TotalPayment.HasValue
      [] h = "FrankingCredit" -> st.FrankingCredit.HasValue
      [] OTHER -> FALSE

\* numeralHeader ranges over a Go map, whose iteration order is not fixed: the
\* set of the (header, found) pairs that some order returns.  A header is
\* returned by the order that tries it first, when one of its texts begins
\* the lowered sentence and its field has no value.
numeralHeader(sentence, st) ==
    Only({IF hits = {} THEN {[head |-> "Franked", found |-> FALSE]}
          ELSE {[head |-> h, found |-> TRUE] : h \in hits} :
             hits \in {{h \in Headers :
                          /\ ~Populated(h, st)
                          /\ \E headerText \in numeralHeaders[h] : HasPrefix(low, headerText)} :
                       low \in {ToLower(sentence)}}})

\* NewDispenserFromSentence: the fragment list of the scratch Dispenser
NewDispenserFromSentence(sentence) ==
    Only({[k \in 1..Len(strArr) |->
              IF k < Len(strArr) THEN strArr[k] \o " " ELSE strArr[k]] :
             strArr \in {Split(sentence)}})

\* the switch of processText that stores the numeral in the header's field
Bind(st, h, number) ==
    CASE h = "Franked" -> [st EXCEPT !.FrankedAmount = NewDollar(number)]
      [] h = "Unfranked" -> [st EXCEPT !.UnfrankedAmount = NewDollar(number)]
      [] h = "WithholdingTax" -> [st EXCEPT !.WithholdingTax = NewDollar(number)]
      [] h = "SharesAllotted" -> [st EXCEPT !.SharesAllotted = ToInt(number)]
      [] h = "CostOfSharesAllotted" -> [st EXCEPT !.CostOfSharesAllotted = NewDollar(number)]
      [] h = "TotalShares" -> [st EXCEPT !.TotalShares = ToInt(number)]
      [] h = "TotalPayment" -> [st EXCEPT !.TotalPayment = NewDollar(number)]
      [] h = "FrankingCredit" -> [st EXCEPT !.FrankingCredit = NewDollar(number)]
      [] OTHER -> st

\* the month names time.Parse looks up, without regard to case
MonthNames == <<"january", "february", "march", "april", "may", "june", "july",
                "august", "september", "october", "november", "december">>

IsLeap(y) == y % 4 = 0 /\ (y % 100 # 0 \/ y % 400 = 0)

DaysIn(m, y) ==
    IF m = 2 THEN (IF IsLeap(y) THEN 29 ELSE 28)
    ELSE IF m \in {4, 6, 9, 11} THEN 30 ELSE 31

\* a space of the layout: the value is empty or goes on with spaces, all cut
SkipSpace(v) ==
    IF v # "" /\ Char(v, 1) # " " THEN [ok |-> FALSE, rest |-> v]
    ELSE [ok |-> TRUE, rest |-> TrimLeftChar(v, " ")]

\* the year and the end of the value: four digits and nothing more
ParseYear(v, day, month) ==
    IF Len(v) = 4 /\ AllDigits(v)
    THEN Only({IF day >= 1 /\ day <= DaysIn(month, year)
               THEN [set |-> TRUE, day |-> day, month |-> month, year |-> year]
               ELSE NoDate : year \in {DigitsValue(v)}})
    ELSE NoDate

\* after the month name: a space, then the year
AfterMonth(v, day, month) ==
    Only({IF b.ok THEN ParseYear(b.rest, day, month) ELSE NoDate :
             b \in {SkipSpace(SubSeq(v, Len(MonthNames[month]) + 1, Len(v)))}})

\* the full month name: the first of the names that begins the value
ParseMonth(v, day) ==
    Only({IF months = {} THEN NoDate
          ELSE AfterMonth(v, day, CHOOSE m \in months : \A o \in months : m <= o) :
             months \in {{m \in 1..12 : HasPrefix(low, MonthNames[m])} :
                            low \in {ToLower(v)}}})

\* time.Parse("02 January 2006", value): two digits, then a space
ParseDate(value) ==
    IF Len(value) >= 2 /\ Char(value, 1) \in Digits /\ Char(value, 2) \in Digits
    THEN Only({IF a.ok THEN ParseMonth(a.rest, DigitsValue(SubSeq(value, 1, 2)))
               ELSE NoDate : a \in {SkipSpace(SubSeq(value, 3, Len(value)))}})
    ELSE NoDate

\* findOtherData works on x = [cur, st, panic]: the cursor, the state, a panic
Fail(x, o) == [cur |-> Cur(o), st |-> x.st, panic |-> TRUE]

\* lines 312-317: the entity is the sentence before a sentence that begins "ABN"
FindEntity(s, sentence, x) ==
    IF ~(Len(sentence) > 3 /\ SubSeq(sentence, 1, 3) = "ABN") THEN x
    ELSE Only({
        IF l.panic THEN Fail(x, l)
        ELSE Only({
            IF t.panic THEN Fail(x, t)
            ELSE Only({IF n.panic THEN Fail(x, n)
                       ELSE [cur |-> Cur(n),
                             st |-> [x.st EXCEPT !.Entity = t.text],
                             panic |-> FALSE] :
                          n \in {NextSentence(s, Cur(t))}}) :
                t \in {DumpSentence(s, Cur(l))}}) :
            l \in {LastSentence(s, x.cur)}})

\* lines 319-322
FindCode(sentence, x) ==
    IF Len(sentence) > 10 /\ ToLower(SubSeq(sentence, 1, 10)) = "asx code: "
    THEN [x EXCEPT !.st.ASXCode = ToUpper(SubSeq(sentence, 11, Len(sentence)))]
    ELSE x

\* the test of line 324
NamesDate(sentence) ==
    Only({Contains(low, "payment date") \/ Contains(low, "holder reference number") :
             low \in {ToLower(sentence)}})

\* lines 324-336: the sentence after "payment date" is the date
FindDate(s, sentence, x) ==
    IF ~NamesDate(sentence) THEN x
    ELSE Only({
        IF n.panic THEN Fail(x, n)
        ELSE Only({
            IF t.panic THEN Fail(x, t)
            ELSE Only({[cur |-> Cur(l),
                        st |-> IF date.set
                               THEN [x.st EXCEPT !.PaymentDate = date]
                               ELSE x.st,
                        panic |-> l.panic] :
                          date \in {ParseDate(t.text)},
                          l \in {LastSentence(s, Cur(t))}}) :
                t \in {DumpSentence(s, Cur(n))}}) :
            n \in {NextSentence(s, x.cur)}})

findOtherData(s, sentence, c, st) ==
    Only({IF x2.panic THEN x2 ELSE FindDate(s, sentence, x2) :
             x2 \in {IF x1.panic THEN x1 ELSE FindCode(sentence, x1) :
                 x1 \in {FindEntity(s, sentence, [cur |-> c, st |-> st, panic |-> FALSE])}}})

\* lines 258-265: the holders the looked-ahead text names, in the holders' order
RECURSIVE HoldersFrom(_, _, _)
HoldersFrom(low, hs, k) ==
    IF k > Len(hs) THEN <<>>
    ELSE (IF Contains(low, ToLower(hs[k])) THEN <<hs[k]>> ELSE <<>>)
             \o HoldersFrom(low, hs, k + 1)

MatchHolders(text, hs) == Only({HoldersFrom(low, hs, 1) : low \in {ToLower(text)}})

\* the position below which a numeral is bound (line 280)
NumeralBound == 5

\* lines 278-280 on the scratch Dispenser's fragment list
SearchNumeral(words) ==
    Only({[found |-> ~j.panic /\ j.ok /\ Position(Cur(j)) < NumeralBound,
           number |-> IF j.panic THEN 0 ELSE Numeral(words, Cur(j)),
           panic |-> j.panic] :
             j \in {JumpNextNumeral(words, Cur(n)) :
                       n \in {NextSentence(words, NewDispenser)}}})

\* lines 277-280: [found, number, panic] of the search for a numeral
FindNumeral(sentence) ==
    Only({SearchNumeral(words) : words \in {NewDispenserFromSentence(sentence)}})

\* the sentences looked ahead (line 256)
LookAhead == 5

\* what one turn of processText's loop comes to
Step(kind, c, st, tr, start, sentence, head) ==
    [kind |-> kind, cur |-> c, st |-> st, tr |-> tr, start |-> start,
     sentence |-> sentence, head |-> head]

\* lines 274-302 with the header left in the queue after its field is set
BodyKeepsHeader(s, c, st, tr, start, sentence) ==
    Only({
        IF x.panic THEN Step("panic", x.cur, st, tr, start, sentence, "none")
        ELSE IF tr = <<>> THEN Step("body", x.cur, x.st, tr, start, sentence, "none")
        ELSE Only({
            IF f.panic THEN Step("panic", x.cur, st, tr, start, sentence, "none")
            ELSE IF f.found
                 THEN Step("bind", x.cur, Bind(x.st, tr[1], f.number), tr,
                           start, sentence, tr[1])
            ELSE Step("body", x.cur, x.st, tr, start, sentence, "none") :
                f \in {FindNumeral(sentence)}}) :
            x \in {findOtherData(s, sentence, c, st)}})

\* lines 274-302: no label was found for the sentence
Body(s, c, st, tr, start, sentence) ==
    Only({
        IF x.panic THEN Step("panic", x.cur, st, tr, start, sentence, "none")
        ELSE IF tr = <<>> THEN Step("body", x.cur, x.st, tr, start, sentence, "none")
        ELSE Only({
            IF f.panic THEN Step("panic", x.cur, st, tr, start, sentence, "none")
            ELSE IF f.found
                 THEN Step("bind", x.cur, Bind(x.st, tr[1], f.number), Tail(tr),
                           start, sentence, tr[1])
            ELSE Step("body", x.cur, x.st, tr, start, sentence, "none") :
                f \in {FindNumeral(sentence)}}) :
            x \in {findOtherData(s, sentence, c, st)}})

\* lines 258-271, newSentence being the looked-ahead text
Joined(s, c, st, tr, hs, start, sentence, newSentence) ==
    Only({
        {IF r.found
         THEN Step("lookahead", c, st1, Append(tr, r.head), start, sentence, r.head)
         ELSE Body(s, c, st1, tr, start, sentence) :
            r \in numeralHeader(newSentence, st1)} :
        st1 \in {IF Len(st.AccountHolders) = 0
                 THEN [st EXCEPT !.AccountHolders = MatchHolders(newSentence, hs)]
                 ELSE st}})

\* lines 256-272, after DumpNSentences returned a
LookedAhead(s, a, st, tr, hs, start, sentence) ==
    Only({Joined(s, Cur(a), st, tr, hs, start, sentence, newSentence) :
             newSentence \in {Join(a.list)}})

\* lines 255-272: the sentence itself begins with no label
Unmatched(s, c, st, tr, hs, start, sentence) ==
    Only({
        IF b.panic THEN {Step("panic", Cur(b), st, tr, start, sentence, "none")}
        ELSE Only({
            IF a.panic THEN {Step("panic", Cur(a), st, tr, start, sentence, "none")}
            ELSE LookedAhead(s, a, st, tr, hs, start, sentence) :
                a \in {DumpNSentences(s, Cur(b), LookAhead)}}) :
            b \in {StartOfSentence(s, c)}})

\* lines 248-272, after NextSentence returned n
Dumped(s, n, st, tr, hs) ==
    Only({
        IF t.panic THEN {Step("panic", Cur(t), st, tr, n.i, "", "none")}
        ELSE UNION {IF r.found
                    THEN {Step("label", Cur(t), st, Append(tr, r.head), n.i, t.text, r.head)}
                    ELSE Unmatched(s, Cur(t), st, tr, hs, n.i, t.text) :
                       r \in numeralHeader(t.text, st)} :
            t \in {DumpSentence(s, Cur(n))}})

\* lines 247-303: one turn of the loop of processText, from its condition on
Iteration(s, c, st, tr, hs) ==
    Only({
        IF n.panic THEN {Step("panic", Cur(n), st, tr, n.i, "", "none")}
        ELSE IF ~n.ok THEN {Step("exit", Cur(n), st, tr, n.i, "", "none")}
        ELSE Dumped(s, n, st, tr, hs) :
            n \in {NextSentence(s, c)}})

----------------------------------------------------------------------------
(* What every specification starts from.                                   *)

NoOp == [name |-> "new", n |-> 0]

NoRet == [ok |-> FALSE, text |-> "", list |-> <<>>, panic |-> FALSE]

NoResult == [returned |-> FALSE, s |-> ZeroStatement, err |-> FALSE]

NoLog == [h \in Headers |-> [appended |-> 0, assigned |-> 0]]

----------------------------------------------------------------------------
(* The Dispenser driven by any caller: every public operation may be       *)
(* called in every state reached from NewDispenser(str).                   *)

\* words and numerals, with and without the trailing space
DispFragments == {"a ", "b", "7 ", "$8"}

DispLists == UNION {[1..n -> DispFragments] : n \in 1..MaxWords}

\* the n of DumpNSentences(n)
DumpCounts == 0..3

InitDisp ==
    /\ str \in DispLists
    /\ d = NewDispenser
    /\ op = NoOp
    /\ pre = NewDispenser
    /\ ret = NoRet
    /\ holders = <<>>
    /\ state = ZeroStatement
    /\ tracker = <<>>
    /\ pc = "disp"
    /\ hist = <<>>
    /\ log = NoLog
    /\ stack = <<>>
    /\ font = ""
    /\ result = NoResult

\* one call of a Dispenser operation whose outcome is o
Call(name, n, o) ==
    /\ pc = "disp"
    /\ d' = Cur(o)
    /\ pre' = d
    /\ op' = [name |-> name, n |-> n]
    /\ ret' = [ok |-> o.ok, text |-> o.text, list |-> o.list, panic |-> o.panic]
    /\ pc' = IF o.panic THEN "panic" ELSE pc
    /\ UNCHANGED <<str, holders, state, tracker, hist, log, stack, font, result>>

CallNextWord == \E o \in {NextWord(str, d)} : Call("NextWord", 0, o)

CallNextNumeral == \E o \in {NextNumeral(str, d)} : Call("NextNumeral", 0, o)

CallJumpNextNumeral == \E o \in {JumpNextNumeral(str, d)} : Call("JumpNextNumeral", 0, o)

CallNextSentence == \E o \in {NextSentence(str, d)} : Call("NextSentence", 0, o)

CallStartOfSentence == \E o \in {StartOfSentence(str, d)} : Call("StartOfSentence", 0, o)

CallLastSentence == \E o \in {LastSentence(str, d)} : Call("LastSentence", 0, o)

CallDumpSentence == \E o \in {DumpSentence(str, d)} : Call("DumpSentence", 0, o)

CallDumpNSentences ==
    \E n \in DumpCounts : \E o \in {DumpNSentences(str, d, n)} : Call("DumpNSentences", n, o)

NextDisp ==
    \/ CallNextWord
    \/ CallNextNumeral
    \/ CallJumpNextNumeral
    \/ CallNextSentence
    \/ CallStartOfSentence
    \/ CallLastSentence
    \/ CallDumpSentence
    \/ CallDumpNSentences

SpecDisp == InitDisp /\ [][NextDisp]_vars

----------------------------------------------------------------------------
(* Properties of the Dispenser, stated over the last call made: op names   *)
(* it, pre is the cursor it was called with, d the cursor it left and ret  *)
(* what it returned.                                                       *)

\* the index of the last fragment of the sentence that fragment i belongs to:
\* the first fragment from i on with no trailing space, or the last fragment
SentenceEnd(s, i) ==
    IF \E k \in i..(Len(s) - 1) : NoTrail(s, k)
    THEN CHOOSE k \in i..(Len(s) - 1) :
             NoTrail(s, k) /\ \A j \in i..(k - 1) : ~NoTrail(s, j)
    ELSE Len(s) - 1

\* the fragments from the cursor to the end of its sentence that are numerals
NumeralsAhead(s, i) == {k \in i..SentenceEnd(s, i) : IsNumeral(s[k + 1])}

\* C4: with a sentence open and the cursor i < len, DumpSentence returns the
\* concatenation of the fragments i..e, e being the end of the sentence, and
\* leaves the cursor at e+1 with the flag closed; with no sentence open it
\* returns the empty string and changes nothing.
C4_DumpSentence ==
    op.name = "DumpSentence" =>
        /\ (pre.c /\ pre.i < Len(str)) =>
              /\ ~ret.panic
              /\ ret.text = Concat(str, pre.i + 1, SentenceEnd(str, pre.i) + 1)
              /\ d = [i |-> SentenceEnd(str, pre.i) + 1, c |-> FALSE]
        /\ ~pre.c => (~ret.panic /\ ret.text = "" /\ d = pre)

\* C4 for the cursors that are indexes of the list, 0 <= i < len
C4_DumpSentenceInRange ==
    (pre.i >= 0) => C4_DumpSentence

\* C5: after DumpNSentences(n) the cursor and the flag are what they were
\* before it, and the same call made again returns the same list and leaves
\* them so again.
C5_DumpNSentences ==
    op.name = "DumpNSentences" =>
        /\ ~ret.panic
        /\ d = pre
        /\ \A again \in {DumpNSentences(str, d, op.n)} :
              ~again.panic /\ again.list = ret.list /\ Cur(again) = d

\* C6: with a sentence open and the cursor inside it, JumpNextNumeral returns
\* true exactly when a numeral lies between the cursor and the end of the
\* sentence; Numeral() then reads the first such fragment; when it returns
\* false the cursor index is what it was.
C6_JumpNextNumeral ==
    (op.name = "JumpNextNumeral" /\ pre.c /\ InRange(str, pre.i)) =>
        /\ ~ret.panic
        /\ ret.ok = (NumeralsAhead(str, pre.i) # {})
        /\ ret.ok =>
              /\ d.i - 1 \in NumeralsAhead(str, pre.i)
              /\ \A k \in NumeralsAhead(str, pre.i) : d.i - 1 <= k
              /\ Numeral(str, d) = getNumeral(str[d.i]).num
        /\ ~ret.ok => d.i = pre.i

\* C6 happens: the jump went over words to a numeral later in the sentence
C6_JumpedOverWords ==
    /\ op.name = "JumpNextNumeral" /\ pre.c /\ InRange(str, pre.i)
    /\ ret.ok /\ d.i - 1 >= pre.i + 2
    /\ pre.i > 0

\* C10: NextSentence with no sentence open and i < len opens the sentence,
\* leaves i and returns true; with a sentence open it moves to the first
\* fragment after the sentence and returns true when there is one (also when
\* it is the only one left), and returns false only when there is none.
C10_NextSentence ==
    op.name = "NextSentence" =>
        /\ (~pre.c /\ pre.i < Len(str)) =>
              (~ret.panic /\ ret.ok /\ d = [i |-> pre.i, c |-> TRUE])
        /\ (pre.c /\ InRange(str, pre.i)) =>
              /\ ~ret.panic
              /\ ret.ok = (SentenceEnd(str, pre.i) + 1 < Len(str))
              /\ ret.ok => d.i = SentenceEnd(str, pre.i) + 1

----------------------------------------------------------------------------
(* processText(str, holders), one turn of its loop at a time.              *)

TextFragments == {"Franked Amount: ", "$36.00", "Total Shares", "0.5",
                  "Payment Date", "15 March 2020", "ABN 12", "x "}

TextLists == UNION {[1..n -> TextFragments] : n \in 1..MaxFrags}

HolderLists == {<<>>, <<"march", "abn">>}

InitText ==
    /\ str \in TextLists
    /\ holders \in HolderLists
    /\ d = NewDispenser
    /\ op = NoOp
    /\ pre = NewDispenser
    /\ ret = NoRet
    /\ state = ZeroStatement
    /\ tracker = <<>>
    /\ pc = "loop"
    /\ hist = <<>>
    /\ log = NoLog
    /\ stack = <<>>
    /\ font = ""
    /\ result = NoResult

\* the turn of the loop that comes to o
Turn(o) ==
    /\ d' = o.cur
    /\ pre' = d
    /\ op' = [name |-> o.kind, n |-> 0]
    /\ ret' = [NoRet EXCEPT !.text = o.sentence, !.panic = (o.kind = "panic")]
    /\ state' = o.st
    /\ tracker' = o.tr
    /\ UNCHANGED <<str, holders, stack, font>>

\* the loop's DumpSentence call of line 248 is noted
Noted(o) == Append(hist, [start |-> o.start, text |-> o.sentence])

\* the sentence begins with a label: the header is appended (lines 250-253)
IterLabel(o) ==
    /\ o.kind = "label" /\ Len(hist) < MaxIter
    /\ Turn(o)
    /\ hist' = Noted(o)
    /\ log' = [log EXCEPT ![o.head].appended = @ + 1]
    /\ UNCHANGED <<pc, result>>

\* the looked-ahead text begins with a label (lines 267-271)
IterLookahead(o) ==
    /\ o.kind = "lookahead" /\ Len(hist) < MaxIter
    /\ Turn(o)
    /\ hist' = Noted(o)
    /\ log' = [log EXCEPT ![o.head].appended = @ + 1]
    /\ UNCHANGED <<pc, result>>

\* no label, and no numeral is bound (lines 274-302)
IterBody(o) ==
    /\ o.kind = "body" /\ Len(hist) < MaxIter
    /\ Turn(o)
    /\ hist' = Noted(o)
    /\ UNCHANGED <<pc, result, log>>

\* no label, and the oldest header is given the sentence's numeral
IterBind(o) ==
    /\ o.kind = "bind" /\ Len(hist) < MaxIter
    /\ Turn(o)
    /\ hist' = Noted(o)
    /\ log' = [log EXCEPT ![o.head].assigned = @ + 1]
    /\ UNCHANGED <<pc, result>>

\* NextSentence returns false: processText returns state, nil
LoopExit(o) ==
    /\ o.kind = "exit"
    /\ Turn(o)
    /\ pc' = "done"
    /\ result' = [returned |-> TRUE, s |-> state, err |-> FALSE]
    /\ UNCHANGED <<hist, log>>

\* a Dispenser call of the turn panics: processText does not return
IterPanic(o) ==
    /\ o.kind = "panic" /\ Len(hist) < MaxIter
    /\ Turn(o)
    /\ pc' = "panic"
    /\ UNCHANGED <<hist, log, result>>

\* one turn of the loop
NextText ==
    /\ pc = "loop"
    /\ \E o \in Iteration(str, d, state, tracker, holders) :
        \/ IterLabel(o)
        \/ IterLookahead(o)
        \/ IterBody(o)
        \/ IterBind(o)
        \/ LoopExit(o)
        \/ IterPanic(o)

SpecText == InitText /\ [][NextText]_vars

\* the index of the first fragment of the sentence that fragment i belongs to:
\* the fragment after the last one before i with no trailing space, or 0
SentenceStart(s, i) ==
    IF \E j \in 0..(i - 1) : NoTrail(s, j)
    THEN 1 + CHOOSE j \in 0..(i - 1) :
                 NoTrail(s, j) /\ \A k \in (j + 1)..(i - 1) : ~NoTrail(s, k)
    ELSE 0

\* the cursor stands as DumpSentence leaves it: closed, after the end of a sentence
AfterSentence(s, c) ==
    /\ ~c.c /\ c.i >= 1 /\ c.i <= Len(s)
    /\ (NoTrail(s, c.i - 1) \/ c.i = Len(s))

\* C12: StartOfSentence puts the cursor on the first fragment of the current
\* sentence and opens it: (a) called where DumpSentence left the cursor after
\* the sentence s..e, it sets the cursor to s, so that DumpSentence returns the
\* sentence again; (b) called with the sentence open at an index in s..e, it
\* sets the cursor to s.
C12_StartOfSentence ==
    op.name = "StartOfSentence" =>
        /\ AfterSentence(str, pre) =>
              /\ ~ret.panic
              /\ d = [i |-> SentenceStart(str, pre.i - 1), c |-> TRUE]
              /\ DumpSentence(str, d).text = Concat(str, d.i + 1, pre.i)
        /\ (pre.c /\ InRange(str, pre.i)) =>
              /\ ~ret.panic
              /\ d = [i |-> SentenceStart(str, pre.i), c |-> TRUE]

\* C13: with the sentence open and the cursor on the first fragment of a
\* sentence, LastSentence puts the cursor on the first fragment of the
\* sentence before it, open, so that DumpSentence returns that sentence; from
\* the first sentence the cursor stays at an index of the first sentence.
C13_LastSentence ==
    (/\ op.name = "LastSentence"
     /\ pre.c /\ InRange(str, pre.i)
     /\ SentenceStart(str, pre.i) = pre.i) =>
        /\ ~ret.panic
        /\ pre.i = 0 => (0 <= d.i /\ d.i <= SentenceEnd(str, 0))
        /\ pre.i > 0 =>
              /\ d = [i |-> SentenceStart(str, pre.i - 1), c |-> TRUE]
              /\ DumpSentence(str, d).text = Concat(str, d.i + 1, pre.i)

\* what C16 says of the cursor c, w and n being what NextWord and NextNumeral
\* would return there
EndAgrees(s, c, w, n) ==
    /\ ~w.panic /\ ~n.panic
    /\ AtEndOfSentence(s, c) = (~w.ok /\ ~n.ok)
    /\ ~w.ok => Cur(w) = c
    /\ ~n.ok => Cur(n) = c
    /\ ~AtEndOfSentence(s, c) =>
          /\ w.ok # n.ok
          /\ n.ok = IsNumeral(s[c.i + 1])
          /\ w.ok => w.i = c.i + 1
          /\ n.ok => n.i = c.i + 1

\* C16: in every reachable state AtEndOfSentence() is true exactly when
\* NextWord() and NextNumeral() would both return false; a call that returns
\* false changes neither cursor nor flag; when it is false exactly one of the
\* two succeeds, NextNumeral when the fragment is a numeral, and moves the
\* cursor by one.
C16_EndOfSentence ==
    pc = "disp" => EndAgrees(str, d, NextWord(str, d), NextNumeral(str, d))

\* C16 for the cursors that are not negative
C16_EndOfSentenceInRange ==
    d.i >= 0 => C16_EndOfSentence

----------------------------------------------------------------------------
(* Properties of processText.                                              *)

\* the sentences of a fragment list, from fragment i on
RECURSIVE SentencesFrom(_, _)
SentencesFrom(s, i) ==
    IF i >= Len(s) THEN <<>>
    ELSE <<Concat(s, i + 1, SentenceEnd(s, i) + 1)>>
             \o SentencesFrom(s, SentenceEnd(s, i) + 1)

\* the sentences that name the payment date and have a sentence after them
DatePairs(S) == {k \in 1..(Len(S) - 1) : NamesDate(S[k])}

\* C1: processText on the fragments "Franked Amount: ", "$36.00" returns a
\* Statement whose FrankedAmount is 3600 cents, present.
C1_FrankedAmountBound ==
    (str = <<"Franked Amount: ", "$36.00">> /\ pc # "loop") =>
        /\ pc = "done"
        /\ result.s.FrankedAmount = [Cents |-> 3600, HasValue |-> TRUE]

\* C2: the loop of processText ends, and the cursor at the top of the loop
\* grows from turn to turn: no sentence is dumped by the loop twice.
C2_LoopAdvances ==
    \A j \in DOMAIN hist : \A k \in DOMAIN hist :
        j < k => hist[j].start < hist[k].start

\* C3: in one run each result field's header is appended to the pending
\* headers at most once, and the field is assigned at most once.
C3_OncePerField ==
    \A h \in FieldHeaders : log[h].appended <= 1 /\ log[h].assigned <= 1

\* no sentence sends findOtherData for the entity
NoEntity(S) == \A k \in 1..Len(S) : ~HasPrefix(S[k], "ABN")

\* C7: in a document with one sentence naming the payment date and a sentence
\* after it (and no sentence beginning "ABN"), processText does not panic and
\* returns with PaymentDate being the date the following sentence writes, or
\* unset when it writes none.
C7_PaymentDate ==
    \A S \in {SentencesFrom(str, 0)} :
        (Cardinality(DatePairs(S)) = 1 /\ NoEntity(S)) =>
            /\ pc # "panic"
            /\ pc = "done" =>
                  \A k \in DatePairs(S) : result.s.PaymentDate = ParseDate(S[k + 1])

\* the texts the loop's DumpSentence call returned, in the order of the calls
DumpedTexts == [k \in DOMAIN hist |-> hist[k].text]

\* C11: when processText returns, the strings its loop's DumpSentence call
\* returned are the sentences of the document, each once and in order.
C11_EverySentenceOnce ==
    pc = "done" => DumpedTexts = SentencesFrom(str, 0)

\* the value of the field a header belongs to
FieldValue(st, h) ==
    CASE h = "Franked" -> st.FrankedAmount
      [] h = "Unfranked" -> st.UnfrankedAmount
      [] h = "WithholdingTax" -> st.WithholdingTax
      [] h = "SharesAllotted" -> st.SharesAllotted
      [] h = "CostOfSharesAllotted" -> st.CostOfSharesAllotted
      [] h = "TotalShares" -> st.TotalShares
      [] h = "TotalPayment" -> st.TotalPayment
      [] h = "FrankingCredit" -> st.FrankingCredit

\* what a turn of the loop does to a queue: a turn that binds a numeral takes
\* the oldest header off, writes the sentence's numeral to that header's field
\* and to no other header's field, and keeps the rest in order; a turn that
\* finds a label appends one header at the tail; every other turn leaves the
\* queue as it is
QueueStep ==
    /\ op'.name = "bind" =>
          /\ tracker # <<>>
          /\ tracker' = Tail(tracker)
          /\ \A h \in FieldHeaders :
                FieldValue(state', h) =
                    IF h = tracker[1]
                    THEN FieldValue(Bind(state, h, FindNumeral(ret'.text).number), h)
                    ELSE FieldValue(state, h)
    /\ op'.name \in {"label", "lookahead"} =>
          \E h \in Headers : tracker' = Append(tracker, h)
    /\ op'.name \in {"body", "exit", "panic"} => tracker' = tracker

\* C14: the pending headers are consumed first in, first out: every turn of
\* processText's loop is a QueueStep.
C14_Fifo == [][QueueStep]_vars

\* C14 happens: a numeral was bound while a younger header stayed pending
C14_BoundOldest ==
    /\ op.name = "bind"
    /\ tracker # <<>>
    /\ \E h \in FieldHeaders : h # tracker[1] /\ log[h].assigned = 1

----------------------------------------------------------------------------
(* processText on documents whose sentences have their numeral late.       *)

WordFragments == {"Total Shares", "a b c d ", "x ", "0.5"}

WordLists == UNION {[1..n -> WordFragments] : n \in 1..MaxFrags}

InitWords ==
    /\ str \in WordLists
    /\ holders = <<>>
    /\ d = NewDispenser
    /\ op = NoOp
    /\ pre = NewDispenser
    /\ ret = NoRet
    /\ state = ZeroStatement
    /\ tracker = <<>>
    /\ pc = "loop"
    /\ hist = <<>>
    /\ log = NoLog
    /\ stack = <<>>
    /\ font = ""
    /\ result = NoResult

SpecWords == InitWords /\ [][NextText]_vars

\* the place of the first numeral among the words of a sentence, or 0
FirstNumeralWord(sentence) ==
    Only({IF \E k \in DOMAIN words : IsNumeral(words[k])
          THEN CHOOSE k \in DOMAIN words :
                   IsNumeral(words[k]) /\ \A j \in 1..(k - 1) : ~IsNumeral(words[j])
          ELSE 0 : words \in {Split(sentence)}})

\* a turn on a sentence without label, with a header pending: the header is
\* given the numeral exactly when the first numeral is among the first five
\* words, and otherwise queue and fields stay as they are
BoundStep ==
    (tracker # <<>> /\ op'.name \in {"body", "bind"}) =>
        /\ (op'.name = "bind") = (FirstNumeralWord(ret'.text) \in 1..5)
        /\ op'.name = "body" =>
              /\ tracker' = tracker
              /\ \A h \in FieldHeaders : FieldValue(state', h) = FieldValue(state, h)

\* C15: with a header pending, a sentence without label whose first numeral is
\* its k-th word binds the oldest header if and only if k <= 5; otherwise the
\* queue and every result field are left as they were.
C15_WithinFiveWords == [][BoundStep]_vars

----------------------------------------------------------------------------
(* NewDollar applied to the value of any numeral.                          *)

\* the largest numeral value, in thousandths
MaxValue == 1010

DollarValues == (0 - MaxValue)..MaxValue

\* the headers of the fields that hold a Dollar
DollarHeaders == FieldHeaders \ {"SharesAllotted", "TotalShares"}

InitDollar ==
    /\ str = <<>>
    /\ holders = <<>>
    /\ d = NewDispenser
    /\ \E v \in DollarValues : op = [name |-> "numeral", n |-> v]
    /\ pre = NewDispenser
    /\ ret = NoRet
    /\ state = ZeroStatement
    /\ tracker \in {<<h>> : h \in DollarHeaders}
    /\ pc = "dollar"
    /\ hist = <<>>
    /\ log = NoLog
    /\ stack = <<>>
    /\ font = ""
    /\ result = NoResult

\* lines 284-299 of processText: the numeral is stored in the pending field
StoreDollar ==
    /\ pc = "dollar"
    /\ state' = Bind(state, tracker[1], op.n)
    /\ tracker' = Tail(tracker)
    /\ pc' = "stored"
    /\ log' = [log EXCEPT ![tracker[1]].assigned = @ + 1]
    /\ UNCHANGED <<str, d, op, pre, ret, holders, hist, stack, font, result>>

NextDollar == StoreDollar

SpecDollar == InitDollar /\ [][NextDollar]_vars

\* the Dollar a header's field holds
FieldOf(st, h) ==
    CASE h = "Franked" -> st.FrankedAmount
      [] h = "Unfranked" -> st.UnfrankedAmount
      [] h = "WithholdingTax" -> st.WithholdingTax
      [] h = "CostOfSharesAllotted" -> st.CostOfSharesAllotted
      [] h = "TotalPayment" -> st.TotalPayment
      [] h = "FrankingCredit" -> st.FrankingCredit

\* v * 100 rounded to the nearest integer, halves up; v in thousandths
RoundHalfUp(v) == (v * 100 + Milli \div 2) \div Milli

\* C8: a field given the numeral value v by NewDollar is present and holds
\* round(v * 100) cents, halves rounded up, for negative, zero and positive
\* v; a field never given a value is not present.
C8_RoundedCents ==
    \A h \in DollarHeaders :
        /\ log[h].assigned = 1 =>
              FieldOf(state, h) = [Cents |-> RoundHalfUp(op.n), HasValue |-> TRUE]
        /\ log[h].assigned = 0 => ~FieldOf(state, h).HasValue

----------------------------------------------------------------------------
(* Process: the content stream is read token by token into the text, and   *)
(* processText runs on the text.  A token is the list of its elements, as  *)
(* ForcedArray gives them: one element for a string, a name, a number or   *)
(* an operator, several for an array.                                      *)

\* string(token), which the switch of process compares with the operators
Keyword(token) == IF Len(token) = 1 THEN token[1] ELSE "[]"

\* ps.String and cmapi.Decode with a font that has no ToUnicode map: the
\* literal string without its parentheses
Decode(e) == SubSeq(e, 2, Len(e) - 1)

\* the spaces a fragment ends with
RECURSIVE Pad(_, _)
Pad(f, k) == IF k >= 1 /\ Char(f, k) = " " THEN 1 + Pad(f, k - 1) ELSE 0

\* textTracker.write, from element k of tx on
RECURSIVE writeFrom(_, _, _)
writeFrom(text, tx, k) ==
    IF k > Len(tx) THEN text
    ELSE IF Char(tx[k], 1) \in {"(", "<"}
         THEN Only({
             IF v = " " /\ Len(text) > 0
             THEN writeFrom([text EXCEPT ![Len(text)] = @ \o " "], tx, k + 1)
             ELSE writeFrom(Append(text, v), tx, k + 1) : v \in {Decode(tx[k])}})
    ELSE writeFrom(text, tx, k + 1)

\* an element of an operand that is a string
IsString(e) == Char(e, 1) \in {"(", "<"}

\* a write that makes a fragment of every string, also of a single space
writeAppends(text, a) ==
    Only({text \o [k \in 1..Len(S) |-> Decode(S[k])] : S \in {SelectSeq(a, IsString)}})

write(text, a) == writeFrom(text, a, 1)

push(st, a) == Append(st, a)

\* textTracker.drop: the operands taken off and the stack left, or a panic
drop(st, num) ==
    IF Len(st) < num THEN [panic |-> TRUE, result |-> <<>>, stack |-> st]
    ELSE [panic |-> FALSE,
          result |-> SubSeq(st, Len(st) - num + 1, Len(st)),
          stack |-> SubSeq(st, 1, Len(st) - num)]

\* the operators of process by the number of operands they drop
NoOperand == {"B", "B*", "F", "S", "b", "b*", "f", "f*", "h", "n", "s", "BT",
              "ET", "T*", "EMC"}

Arity == [k \in {"G", "J", "M", "g", "gs", "i", "j", "w", "TL", "Tc", "Tr",
                 "Ts", "Tw", "Tz", "BMC", "MP"} |-> 1]
         @@ [k \in {"l", "m", "TD", "Td", "BDC", "DP"} |-> 2]
         @@ [k \in {"RG", "rg"} |-> 3]
         @@ [k \in {"re", "v", "y", "K", "k"} |-> 4]
         @@ [k \in {"c", "cm", "Tm"} |-> 6]

ShowLast == {"'", "TJ", "Tj"}

Operators == NoOperand \cup DOMAIN Arity \cup ShowLast \cup {"Tf", "\""}

\* the operands of the content streams that are read
Operands == {<<"(Payment Date)">>, <<"(15 March 2020)">>, <<"( )">>}

\* the operators of the content streams that are read
StreamOperators == {"BT", "Tc", "Td", "rg", "re", "Tm", "Tf", "Tj", "TJ", "'", "\""}

\* the text stays within the bounds of the model
Bounded(text) ==
    /\ Len(text) <= MaxText
    /\ \A k \in 1..Len(text) : Pad(text[k], Len(text[k])) <= MaxPad

InitProcess ==
    /\ str = <<>>
    /\ holders = <<>>
    /\ d = NewDispenser
    /\ op = NoOp
    /\ pre = NewDispenser
    /\ ret = NoRet
    /\ state = ZeroStatement
    /\ tracker = <<>>
    /\ pc = "load"
    /\ hist = <<>>
    /\ log = NoLog
    /\ stack = <<>>
    /\ font = ""
    /\ result = NoResult

Interp == UNCHANGED <<d, pre, ret, holders, state, tracker, hist, log, result>>

\* the token read is noted in op
Read(token) == op' = [name |-> Keyword(token), n |-> 0]

\* pdfread.Load and the page's content stream: read, or a panic of the reader
LoadFile ==
    /\ pc = "load"
    /\ pc' \in {"process", "panic"}
    /\ UNCHANGED <<str, stack, font, op>>
    /\ Interp

\* an operator that takes no operand
ReadNoOperand ==
    /\ pc = "process"
    /\ \E token \in {<<k>> : k \in StreamOperators} :
          Keyword(token) \in NoOperand /\ Read(token)
    /\ UNCHANGED <<pc, str, stack, font>>
    /\ Interp

\* an operator that drops its operands
ReadDrop ==
    /\ pc = "process"
    /\ \E token \in {<<k>> : k \in StreamOperators} :
          /\ Keyword(token) \in DOMAIN Arity
          /\ Read(token)
          /\ \E r \in {drop(stack, Arity[Keyword(token)])} :
                /\ pc' = IF r.panic THEN "panic" ELSE pc
                /\ stack' = r.stack
    /\ UNCHANGED <<str, font>>
    /\ Interp

\* Tf: the font is the first of the two operands
ReadFont ==
    /\ pc = "process"
    /\ \E token \in {<<k>> : k \in StreamOperators} :
          /\ Keyword(token) = "Tf"
          /\ Read(token)
          /\ \E r \in {drop(stack, 2)} :
                /\ pc' = IF r.panic THEN "panic" ELSE pc
                /\ stack' = r.stack
                /\ font' = IF r.panic THEN font ELSE Keyword(r.result[1])
    /\ UNCHANGED str
    /\ Interp

\* the operand n of the m last is written, n and m as the operator has them
Show(m, n) ==
    \E r \in {drop(stack, m)} :
        /\ pc' = IF r.panic THEN "panic" ELSE pc
        /\ stack' = r.stack
        /\ str' = IF r.panic THEN str ELSE write(str, r.result[n])
        /\ Bounded(str')

\* ', TJ, Tj: the last operand is written
ReadShow ==
    /\ pc = "process"
    /\ \E token \in {<<k>> : k \in StreamOperators} :
          Keyword(token) \in ShowLast /\ Read(token) /\ Show(1, 1)
    /\ UNCHANGED font
    /\ Interp

\* ": the third of the last three operands is written
ReadShowSpaced ==
    /\ pc = "process"
    /\ \E token \in {<<k>> : k \in StreamOperators} :
          Keyword(token) = "\"" /\ Read(token) /\ Show(3, 3)
    /\ UNCHANGED font
    /\ Interp

\* any other token is an operand
ReadOperand ==
    /\ pc = "process"
    /\ Len(stack) < MaxStack
    /\ \E token \in Operands :
          Keyword(token) \notin Operators /\ Read(token) /\ stack' = push(stack, token)
    /\ UNCHANGED <<pc, str, font>>
    /\ Interp

\* the stream has ended: processText(ttracker.text, holders) begins
EndOfStream ==
    /\ pc = "process"
    /\ pc' = "loop"
    /\ d' = NewDispenser
    /\ UNCHANGED <<str, stack, font, op, pre, ret, holders, state, tracker,
                   hist, log, result>>

\* a Process whose deferred function lets the statement through
RecoveredPartial(st) == [returned |-> TRUE, s |-> st, err |-> TRUE]

\* what Process returns after a panic, st being processText's state then:
\* the named result s was never assigned, and err is set by the deferred
\* function
Recovered(st) == [returned |-> TRUE, s |-> ZeroStatement, err |-> TRUE]

\* the deferred function of Process recovers the panic
Recover ==
    /\ pc = "panic"
    /\ pc' = "failed"
    /\ result' = Recovered(state)
    /\ UNCHANGED <<str, d, op, pre, ret, holders, state, tracker, hist, log,
                   stack, font>>

NextProcess ==
    \/ LoadFile
    \/ ReadNoOperand
    \/ ReadDrop
    \/ ReadFont
    \/ ReadShow
    \/ ReadShowSpaced
    \/ ReadOperand
    \/ EndOfStream
    \/ NextText
    \/ Recover

SpecProcess == InitProcess /\ [][NextProcess]_vars

\* C9: a panic inside Process is not propagated: Process returns, with an
\* error and the zero Statement, whatever processText had already stored.
C9_NoPartialResult ==
    /\ pc = "failed" => result = [returned |-> TRUE, s |-> ZeroStatement, err |-> TRUE]
    /\ result.err => result.s = ZeroStatement
    /\ pc = "panic" => ENABLED Recover

\* C9 happens: processText panicked after it had stored the payment date
C9_PanicAfterStore ==
    /\ pc = "failed"
    /\ state.PaymentDate.set
    /\ result.err

----------------------------------------------------------------------------
(* processText over documents with a label that has another label of the   *)
(* table as a prefix: "total amount" (headerTotalPayment) begins "total    *)
(* amount available for reinvestment" (headerOther).                       *)

OrderFragments == {"Total amount available for reinvestment", "Total Payment",
                   "x ", "$36.00"}

\* the documents in which that label stands at most once
OrderLists ==
    {s \in UNION {[1..n -> OrderFragments] : n \in 1..MaxFrags} :
        Cardinality({k \in 1..Len(s) : Len(s[k]) > Len("Total Payment")}) <= 1}

InitOrder ==
    /\ str \in OrderLists
    /\ holders = <<>>
    /\ d = NewDispenser
    /\ op = NoOp
    /\ pre = NewDispenser
    /\ ret = NoRet
    /\ state = ZeroStatement
    /\ tracker = <<>>
    /\ pc = "loop"
    /\ hist = <<>>
    /\ log = NoLog
    /\ stack = <<>>
    /\ font = ""
    /\ result = NoResult

SpecOrder == InitOrder /\ [][NextText]_vars

\* what numeralHeader can return for the sentence the next turn dumps
HeaderOfTurn ==
    UNION {IF n.panic \/ ~n.ok THEN {}
           ELSE UNION {IF t.panic THEN {} ELSE numeralHeader(t.text, state) :
                          t \in {DumpSentence(str, Cur(n))}} :
              n \in {NextSentence(str, d)}}

\* the Statements processText can return within n turns of its loop
RECURSIVE Returns(_, _, _, _, _, _)
Returns(s, c, st, tr, hs, n) ==
    IF n = 0 THEN {}
    ELSE UNION {IF o.kind = "exit" THEN {o.st}
                ELSE IF o.kind = "panic" THEN {}
                ELSE Returns(s, o.cur, o.st, o.tr, hs, n - 1) :
                   o \in Iteration(s, c, st, tr, hs)}

\* C19: for a fixed sentence and result state numeralHeader returns the same
\* (header, found) pair whatever the iteration order over the label table,
\* also when more than one phrase of the table begins the sentence; hence a
\* turn of processText has one outcome, and two runs on the same fragments and
\* holders return equal Statements.
C19_Deterministic ==
    pc = "loop" =>
        /\ Cardinality(HeaderOfTurn) <= 1
        /\ hist = <<>> =>
              Cardinality(Returns(str, d, state, tracker, holders, MaxIter + 1)) <= 1

\* the only headers numeralHeader chooses between are those of "total amount"
C19_OnlyTotalAmount ==
    (pc = "loop" /\ Cardinality(HeaderOfTurn) > 1) =>
        HeaderOfTurn = {[head |-> "TotalPayment", found |-> TRUE],
                        [head |-> "Other", found |-> TRUE]}

----------------------------------------------------------------------------
(* A caller that opens sentences with NextSentence and then reads them     *)
(* with NextWord, NextNumeral and JumpNextNumeral only.  hist holds the    *)
(* cursor the last NextSentence that returned true left.                   *)

\* one call of a Dispenser operation whose outcome is o, h being the opened
\* sentence after it
Walk(name, o, h) ==
    /\ pc = "disp"
    /\ d' = Cur(o)
    /\ pre' = d
    /\ op' = [name |-> name, n |-> 0]
    /\ ret' = [ok |-> o.ok, text |-> o.text, list |-> o.list, panic |-> o.panic]
    /\ pc' = IF o.panic THEN "panic" ELSE pc
    /\ hist' = h
    /\ UNCHANGED <<str, holders, state, tracker, log, stack, font, result>>

WalkNextSentence ==
    \E o \in {NextSentence(str, d)} :
        Walk("NextSentence", o,
             IF o.ok /\ ~o.panic THEN <<[start |-> o.i, text |-> ""]>> ELSE <<>>)

WalkNextWord ==
    /\ hist # <<>>
    /\ \E o \in {NextWord(str, d)} : Walk("NextWord", o, hist)

WalkNextNumeral ==
    /\ hist # <<>>
    /\ \E o \in {NextNumeral(str, d)} : Walk("NextNumeral", o, hist)

WalkJumpNextNumeral ==
    /\ hist # <<>>
    /\ \E o \in {JumpNextNumeral(str, d)} : Walk("JumpNextNumeral", o, hist)

NextWalk ==
    \/ WalkNextSentence
    \/ WalkNextWord
    \/ WalkNextNumeral
    \/ WalkJumpNextNumeral

SpecWalk == InitDisp /\ [][NextWalk]_vars

\* the sentence opened by the last NextSentence: its first and last fragment
Opened == hist[1].start

OpenedEnd == SentenceEnd(str, hist[1].start)

\* the last call was an advance made after NextSentence opened a sentence
Advanced ==
    /\ pc \in {"disp", "panic"}
    /\ hist # <<>>
    /\ op.name \in {"NextWord", "NextNumeral", "JumpNextNumeral"}

\* C20: after NextSentence opened the sentence of the fragments s..e, every
\* sequence of NextWord, NextNumeral and JumpNextNumeral calls consumes only
\* fragments in s..e and never moves the cursor beyond e+1; a NextWord or
\* NextNumeral called with the cursor at e+1, as after JumpNextNumeral found
\* the numeral that ends the sentence, returns false.
C20_BoundedToSentence ==
    Advanced =>
        /\ ~ret.panic
        /\ Opened <= d.i /\ d.i <= OpenedEnd + 1
        /\ (op.name \in {"NextWord", "NextNumeral"} /\ pre.i = OpenedEnd + 1) => ~ret.ok
        /\ (op.name \in {"NextWord", "NextNumeral"} /\ ret.ok) =>
              (pre.i \in Opened..OpenedEnd /\ d.i = pre.i + 1)

\* NextWord and NextNumeral alone keep the bound: called inside the sentence
\* they stay inside it, or leave the cursor at e+1 with the sentence closed or
\* the list at its end
C20_WordsStayInside ==
    (Advanced /\ op.name \in {"NextWord", "NextNumeral"}
              /\ pre.i \in Opened..OpenedEnd) =>
        /\ ~ret.panic
        /\ d.i <= OpenedEnd + 1
        /\ d.i = OpenedEnd + 1 => (~d.c \/ d.i = Len(str))

\* it is JumpNextNumeral that leaves the sentence open past its end
C20_OpenPastEndOnlyByJump ==
    (Advanced /\ d.c /\ d.i = OpenedEnd + 1 /\ d.i < Len(str)
              /\ ~(pre.c /\ pre.i = OpenedEnd + 1)) =>
        (op.name = "JumpNextNumeral" /\ ret.ok)

----------------------------------------------------------------------------
(* Properties of the cursor, over every sequence of Dispenser operations.  *)

\* C18: after any sequence of Dispenser operations on a non-empty list of
\* non-empty fragments the cursor satisfies 0 <= i <= len(str), and no
\* operation indexes the list outside 0..len(str)-1 (none panics).
C18_CursorBounds ==
    pc \in {"disp", "panic"} => (0 <= d.i /\ d.i <= Len(str) /\ ~ret.panic)

\* the upper half of C18: the cursor never passes len(str)
C18_CursorUpperBound == pc \in {"disp", "panic"} => d.i <= Len(str)

\* the cursor goes below 0 only in LastSentence
C18_BelowOnlyByLastSentence ==
    (pc \in {"disp", "panic"} /\ d.i < 0 /\ pre.i >= 0) => op.name = "LastSentence"

----------------------------------------------------------------------------
(* Properties of the interpreter, stated over a step of process that reads *)
(* one token and goes on: op' names the token, and the operand a text-     *)
(* showing operator writes is the last one on the stack.                   *)

ShowOperators == ShowLast \cup {"\""}

\* the step reads a token, and process goes on to the next
Completes == pc = "process" /\ pc' = "process"

\* the step shows an operand that is one string, whose decoded value is v
Shows(v) ==
    /\ Completes
    /\ op'.name \in ShowOperators
    /\ Len(stack[Len(stack)]) = 1
    /\ IsString(stack[Len(stack)][1])
    /\ v = Decode(stack[Len(stack)][1])

\* the operators that are neither Tf nor text-showing, and unknown tokens
OtherTokens ==
    /\ (Completes /\ op'.name \in NoOperand) =>
          (str' = str /\ font' = font /\ stack' = stack)
    /\ (Completes /\ op'.name \in DOMAIN Arity) =>
          /\ str' = str /\ font' = font
          /\ stack' = SubSeq(stack, 1, Len(stack) - Arity[op'.name])
    /\ (Completes /\ op'.name \notin Operators) =>
          /\ str' = str /\ font' = font
          /\ Len(stack') = Len(stack) + 1
          /\ SubSeq(stack', 1, Len(stack)) = stack
          /\ Keyword(stack'[Len(stack')]) = op'.name

\* a shown value that is no single space becomes the new last fragment
ShowAppends ==
    \A v \in {Decode(a[1]) : a \in Operands} :
        (Shows(v) /\ v # " ") => str' = Append(str, v)

\* a shown single space is added to the last fragment, whatever the list
SpaceStep ==
    /\ Shows(" ") =>
          /\ Len(str') = Len(str)
          /\ Len(str) > 0
          /\ str' = [str EXCEPT ![Len(str)] = @ \o " "]
    /\ ShowAppends
    /\ OtherTokens

\* a shown single space is added to the last fragment when there is one, and
\* is the first fragment when there is none
SpaceStepAmended ==
    /\ (Shows(" ") /\ Len(str) > 0) => str' = [str EXCEPT ![Len(str)] = @ \o " "]
    /\ (Shows(" ") /\ Len(str) = 0) => str' = <<" ">>
    /\ ShowAppends
    /\ OtherTokens

====
